---- MODULE Spec2Model ----
(***************************************************************************)
(* A model of coffeebot.py: the Collective state machine (membership,      *)
(* size cap, leader, maker election, staleness) and the Coffeebot that     *)
(* holds the current and the archived collective and reacts to heartbeats. *)
(*                                                                         *)
(* Python values are tagged records, so that None, a str and the list that *)
(* random.sample returns stay distinct values that can be compared.        *)
(***************************************************************************)
EXTENDS Naturals, Integers, Sequences, FiniteSets, TLC

VARIABLES
    bot,       \* the Coffeebot: its curr_collective and old_collective slots
    sent,      \* what client.send_message was called with, in order
    now,       \* datetime.now(), in minutes
    call,      \* the last call made: its name and argument
    raised,    \* the exception that call raised, or NoError
    returned,  \* the value that call returned (None when it raised)
    nobjects,  \* how many Collective objects were constructed so far
    _PARSE_CACHE   \* the module's cache of the parse map

vars == <<bot, sent, now, call, raised, returned, nobjects, _PARSE_CACHE>>

----------------------------------------------------------------------------
(* Bounds of the model *)

\* the largest max_size a Collective is created with
MaxSize == 2
\* the largest timeout_in_mins a Collective is created with
MaxTimeout == 1
\* the clock stops advancing here
MaxTime == 1
\* how many Collectives are constructed in one run
MaxCollectives == 1
\* the largest timeout_in_mins where staleness is looked at on its own
MaxStaleTimeout == 3
\* the clock stops advancing here where staleness is looked at on its own
MaxElapsed == 4

----------------------------------------------------------------------------
(* Python values *)

None == [type |-> "NoneType"]
Str(s) == [type |-> "str", s |-> s]
List(items) == [type |-> "list", items |-> items]
Bool(b) == [type |-> "bool", b |-> b]

Users == {Str("alice"), Str("bob"), Str("carol")}

\* bool(v) of a Python value; a Collective defines __len__, so it is
\* falsy when it has no users
Truthy(v) ==
    CASE v.type = "NoneType" -> FALSE
      [] v.type = "str" -> v.s # ""
      [] v.type = "list" -> Len(v.items) > 0
      [] v.type = "bool" -> v.b
      [] v.type = "Collective" -> Cardinality(v.users) # 0

\* exceptions
NoError == [exc |-> "None"]
CoffeeError(msg) == [exc |-> "CoffeeError", msg |-> msg]
ValueError(msg) == [exc |-> "ValueError", msg |-> msg]
AssertionError(msg) == [exc |-> "AssertionError", msg |-> msg]
TypeError(msg) == [exc |-> "TypeError", msg |-> msg]
AttributeError(msg) == [exc |-> "AttributeError", msg |-> msg]
KeyError(key) == [exc |-> "KeyError", key |-> key]
\* CoffeeError("{} is not in the collective!".format(user))
NotInCollective(user) ==
    [exc |-> "CoffeeError", msg |-> "{} is not in the collective!",
     user |-> user]

\* the users in a fixed order, to index them
UserOrder == <<Str("alice"), Str("bob"), Str("carol")>>

\* the outcomes of the random source: where in the population the draw starts
RandomSeeds == 0..(Len(UserOrder) - 1)

\* the population as a list, rotated by the random source
Shuffled(population, rnd) ==
    LET pop == SelectSeq(UserOrder, LAMBDA u : u \in population)
        n == Len(pop)
    IN [i \in 1..n |-> pop[((i - 1 + rnd) % n) + 1]]

\* random.sample(population, k): a list of k distinct elements of the
\* population; which ones is decided by the random source rnd
sample(population, k, rnd) ==
    List(SubSeq(Shuffled(population, rnd), 1, k))

----------------------------------------------------------------------------
(* The parser. A message is the list of its characters. *)

Text(chars) == [type |-> "str", chars |-> chars]

LowerCase ==
    <<"a", "b", "c", "d", "e", "f", "g", "h", "i", "j", "k", "l", "m",
      "n", "o", "p", "q", "r", "s", "t", "u", "v", "w", "x", "y",
      "z">>

UpperCase ==
    <<"A", "B", "C", "D", "E", "F", "G", "H", "I", "J", "K", "L", "M",
      "N", "O", "P", "Q", "R", "S", "T", "U", "V", "W", "X", "Y",
      "Z">>

\* str.lower(), character by character
lower(chars) ==
    [i \in 1..Len(chars) |->
        IF \E k \in 1..Len(UpperCase) : UpperCase[k] = chars[i]
        THEN LowerCase[CHOOSE k \in 1..Len(UpperCase) : UpperCase[k] = chars[i]]
        ELSE chars[i]]

_COMMAND_REGS == <<
    <<"init", <<
        <<"@", "c", "o", "f", "f", "e", "e", "b", "o", "t", " ", "i", "n",
          "i", "t">>,
        <<"@", "c", "o", "f", "f", "e", "e", "b", "o", "t", " ", "s", "t",
          "a", "r", "t">>,
        <<"@", "c", "o", "f", "f", "e", "e", "b", "o", "t", " ", "c", "o",
          "f", "f", "e", "e">>>> >>,
    <<"add", <<
        <<"@", "c", "o", "f", "f", "e", "e", "b", "o", "t", " ", "y", "e",
          "s">>,
        <<"@", "c", "o", "f", "f", "e", "e", "b", "o", "t", " ", "j", "o",
          "i", "n">>,
        <<"@", "c", "o", "f", "f", "e", "e", "b", "o", "t", " ", "i", "n">>>> >>,
    <<"remove", <<
        <<"@", "c", "o", "f", "f", "e", "e", "b", "o", "t", " ", "n", "o">>,
        <<"@", "c", "o", "f", "f", "e", "e", "b", "o", "t", " ", "l", "e",
          "a", "v", "e">>,
        <<"@", "c", "o", "f", "f", "e", "e", "b", "o", "t", " ", "o", "u",
          "t">>>> >>,
    <<"close", <<
        <<"@", "c", "o", "f", "f", "e", "e", "b", "o", "t", " ", "d", "o",
          "n", "e">>,
        <<"@", "c", "o", "f", "f", "e", "e", "b", "o", "t", " ", "c", "l",
          "o", "s", "e">>,
        <<"@", "c", "o", "f", "f", "e", "e", "b", "o", "t", " ", "s", "t",
          "o", "p">>>> >>,
    <<"love", <<
        <<"@", "c", "o", "f", "f", "e", "e", "b", "o", "t", " ", "l", "o",
          "v", "e">>,
        <<"i", " ", "l", "o", "v", "e", " ", "y", "o", "u", " ", "@", "c",
          "o", "f", "f", "e", "e", "b", "o", "t">>>> >> >>

\* the backtick character, cut out of a longer literal: a string literal
\* cannot end right after a backtick
backtick == SubSeq("`'", 1, 1)

\* re.compile(fmt.format(regex)) with fmt = (?<!`'\"){}(?<!^`'\"): the regex
\* between two negative lookbehinds. Neither is a character class: the first
\* is the three characters `'" in a row, the second the same three at the
\* very start of the string.
_reg_wrap(regex) ==
    [not_behind |-> <<backtick, "'", "\"">>,
     literal |-> regex,
     not_behind_from_start |-> <<backtick, "'", "\"">>]

\* whether reg matches the string at the (0-based) position pos
match_at(reg, string, pos) ==
    LET end == pos + Len(reg.literal)
        nb == Len(reg.not_behind)
        ns == Len(reg.not_behind_from_start)
    IN /\ ~(pos >= nb /\ SubSeq(string, pos - nb + 1, pos) = reg.not_behind)
       /\ end <= Len(string)
       /\ SubSeq(string, pos + 1, end) = reg.literal
       /\ ~(end = ns /\ SubSeq(string, 1, ns) = reg.not_behind_from_start)

re_search(reg, string) ==
    \E pos \in 0..Len(string) : match_at(reg, string, pos)

\* reg.match(string): a match at the start of the string only
re_match(reg, string) == match_at(reg, string, 0)

\* the parse map of _command_regs: (regex, command), in declaration order
parse_map(_command_regs) ==
    LET flat[i \in 0..Len(_command_regs)] ==
            IF i = 0 THEN <<>>
            ELSE flat[i - 1] \o
                 [j \in 1..Len(_command_regs[i][2]) |->
                     <<_reg_wrap(_command_regs[i][2][j]),
                       _command_regs[i][1]>>]
    IN flat[Len(_command_regs)]

\* _parse_cache is a dict, kept as the set of its (key, value) pairs
_get_parse_map(_command_regs, _parse_cache) ==
    LET cache == IF \E kv \in _parse_cache : kv[1] = _command_regs
                 THEN _parse_cache
                 ELSE _parse_cache \cup
                          {<<_command_regs, parse_map(_command_regs)>>}
    IN [cache |-> cache,
        return |-> (CHOOSE kv \in cache : kv[1] = _command_regs)[2]]

_parse(message, _parse_cache) ==
    LET downcased == lower(message)
        m == _get_parse_map(_COMMAND_REGS, _parse_cache)
        hits == {i \in 1..Len(m.return) : re_match(m.return[i][1], downcased)}
        first == CHOOSE i \in hits : \A j \in hits : i <= j
    IN [cache |-> m.cache,
        return |-> IF hits = {} THEN None ELSE Str(m.return[first][2])]

----------------------------------------------------------------------------
(* class Collective *)

Collective(leader, stream, topic, max_size, timeout_in_mins, t, oid) ==
    [type |-> "Collective",
     oid |-> oid,
     leader |-> leader,
     stream |-> stream,
     topic |-> topic,
     max_size |-> max_size,
     timeout_in_mins |-> timeout_in_mins,
     time_created |-> t,
     users |-> {leader},
     closed |-> FALSE,
     maker |-> None]

\* len(self)
len(self) == Cardinality(self.users)

elect_maker(self, rnd) ==
    IF ~Truthy(self.maker)
    THEN IF len(self) < 1
         THEN [self |-> self,
               raise |-> ValueError("Sample larger than population")]
         ELSE [self |-> [self EXCEPT !.maker = sample(self.users, 1, rnd)],
               raise |-> NoError]
    ELSE [self |-> self,
          raise |-> CoffeeError("Maker has already been elected!")]

close_reelects(self, rnd) ==
    LET e == IF self.users # {}
             THEN elect_maker([self EXCEPT !.maker = None], rnd)
             ELSE [self |-> self, raise |-> NoError]
    IN IF e.raise # NoError THEN e
       ELSE [self |-> [e.self EXCEPT !.closed = TRUE], raise |-> NoError]

close_always_elects(self, rnd) ==
    IF ~self.closed
    THEN LET e == elect_maker(self, rnd)
         IN IF e.raise # NoError THEN e
            ELSE [self |-> [e.self EXCEPT !.closed = TRUE], raise |-> NoError]
    ELSE [self |-> self,
          raise |-> CoffeeError("This collective has already been closed.")]

close_stays_open(self, rnd) ==
    IF ~self.closed
    THEN IF self.users # {}
         THEN elect_maker(self, rnd)
         ELSE [self |-> self, raise |-> NoError]
    ELSE [self |-> self,
          raise |-> CoffeeError("This collective has already been closed.")]

close(self, rnd) ==
    IF ~self.closed
    THEN LET e == IF self.users # {}
                  THEN elect_maker(self, rnd)
                  ELSE [self |-> self, raise |-> NoError]
         IN IF e.raise # NoError THEN e
            ELSE [self |-> [e.self EXCEPT !.closed = TRUE], raise |-> NoError]
    ELSE [self |-> self,
          raise |-> CoffeeError("This collective has already been closed.")]

add_never_closes(self, user, rnd) ==
    IF ~self.closed
    THEN [self |-> [self EXCEPT !.users = self.users \cup {user}],
          raise |-> NoError]
    ELSE [self |-> self, raise |-> CoffeeError("This collective is closed.")]

add_restores_leader(self, user, rnd) ==
    IF ~self.closed
    THEN LET added == [self EXCEPT
                          !.users = self.users \cup {user},
                          !.leader = IF self.leader = None
                                     THEN user ELSE self.leader]
         IN IF len(added) >= added.max_size
            THEN close(added, rnd)
            ELSE [self |-> added, raise |-> NoError]
    ELSE [self |-> self, raise |-> CoffeeError("This collective is closed.")]

add(self, user, rnd) ==
    IF ~self.closed
    THEN LET added == [self EXCEPT !.users = self.users \cup {user}]
         IN IF len(added) >= added.max_size
            THEN close(added, rnd)
            ELSE [self |-> added, raise |-> NoError]
    ELSE [self |-> self, raise |-> CoffeeError("This collective is closed.")]

remove_keeps_leader(self, user) ==
    IF user \in self.users
    THEN [self |-> [self EXCEPT !.users = self.users \ {user}],
          raise |-> NoError]
    ELSE [self |-> self, raise |-> NotInCollective(user)]

remove_discards(self, user) ==
    [self |-> [self EXCEPT
                 !.leader = IF user = self.leader THEN None ELSE self.leader,
                 !.users = self.users \ {user}],
     raise |-> NoError]

remove(self, user) ==
    IF user \in self.users
    THEN [self |-> [self EXCEPT
                      !.leader = IF user = self.leader THEN None
                                 ELSE self.leader,
                      !.users = self.users \ {user}],
          raise |-> NoError]
    ELSE [self |-> self, raise |-> NotInCollective(user)]

is_stale_only_after(self, t) == t - self.time_created > self.timeout_in_mins

is_stale(self, t) == t - self.time_created >= self.timeout_in_mins

\* the mentions of ping_string; the order of a set's iteration is not fixed,
\* so the string is kept as the set of the users it mentions
ping_string(self) == self.users

timeout_message_unasserted(self) ==
    [msg |-> [type |-> "stream",
              to |-> self.stream,
              subject |-> self.topic,
              content |-> [maker |-> self.maker,
                           pings |-> ping_string(self)]],
     raise |-> NoError]

timeout_message(self) ==
    IF ~self.closed
    THEN [msg |-> None,
          raise |-> AssertionError(
              "Timeout message retrieved without closing collective!")]
    ELSE [msg |-> [type |-> "stream",
                   to |-> self.stream,
                   subject |-> self.topic,
                   content |-> [maker |-> self.maker,
                                pings |-> ping_string(self)]],
          raise |-> NoError]

Directive(command, args) == [command |-> command, args |-> args]

dispatch_without_args(self, directive, rnd) ==
    CASE directive.command = "add" ->
            [self |-> self,
             raise |-> TypeError(
                 "add() missing 1 required positional argument: 'user'")]
      [] directive.command = "remove" ->
            [self |-> self,
             raise |-> TypeError(
                 "remove() missing 1 required positional argument: 'user'")]
      [] directive.command = "close" -> close(self, rnd)
      [] OTHER -> [self |-> self, raise |-> KeyError(directive.command)]

\* func is called with directive.args when that is truthy, and with nothing
\* otherwise; a call with the wrong number of arguments is a TypeError
dispatch(self, directive, rnd) ==
    CASE directive.command = "add" ->
            IF Truthy(directive.args)
            THEN add(self, directive.args, rnd)
            ELSE [self |-> self,
                  raise |-> TypeError(
                      "add() missing 1 required positional argument: 'user'")]
      [] directive.command = "remove" ->
            IF Truthy(directive.args)
            THEN remove(self, directive.args)
            ELSE [self |-> self,
                  raise |-> TypeError(
                      "remove() missing 1 required positional argument: 'user'")]
      [] directive.command = "close" ->
            IF Truthy(directive.args)
            THEN [self |-> self,
                  raise |-> TypeError(
                      "close() takes 1 positional argument but 2 were given")]
            ELSE close(self, rnd)
      [] OTHER -> [self |-> self, raise |-> KeyError(directive.command)]

----------------------------------------------------------------------------
(* class Coffeebot *)

Coffeebot == [curr_collective |-> None, old_collective |-> None]

\* the slots move before close() is called, so they stay moved when it raises
archive_collective(self, rnd) ==
    LET moved == [self EXCEPT !.old_collective = self.curr_collective,
                              !.curr_collective = None]
        c == close(moved.old_collective, rnd)
    IN [self |-> [moved EXCEPT !.old_collective = c.self], raise |-> c.raise]

handle_heartbeat(self, outbox, t, rnd) ==
    IF Truthy(self.curr_collective) /\ is_stale(self.curr_collective, t)
    THEN LET a == archive_collective(self, rnd)
             m == timeout_message(a.self.old_collective)
         IN IF a.raise # NoError
            THEN [self |-> a.self, sent |-> outbox, raise |-> a.raise]
            ELSE IF m.raise # NoError
            THEN [self |-> a.self, sent |-> outbox, raise |-> m.raise]
            ELSE [self |-> a.self, sent |-> Append(outbox, m.msg),
                  raise |-> NoError]
    ELSE [self |-> self, sent |-> outbox, raise |-> NoError]

\* An event is the dict the client hands over: dispatch_event subscripts it.
\* Reading event.sender_email off a dict raises before anything is sent.
handle_private_message(self, outbox, event) ==
    [self |-> self, sent |-> outbox,
     raise |-> AttributeError("'dict' object has no attribute 'sender_email'")]

\* the body is pass
handle_public_message(self, outbox, event) ==
    [self |-> self, sent |-> outbox, raise |-> NoError]

\* every handler is called with the event; handle_heartbeat takes none
dispatch_event(self, outbox, event) ==
    CASE event.type = "heartbeat" ->
            [self |-> self, sent |-> outbox,
             raise |-> TypeError(
                 "handle_heartbeat() takes 1 positional argument but 2 were given")]
      [] event.type = "private" -> handle_private_message(self, outbox, event)
      [] event.type = "message" -> handle_public_message(self, outbox, event)
      [] OTHER ->
            [self |-> self, sent |-> outbox, raise |-> KeyError(event.type)]


----------------------------------------------------------------------------
(* The state machine *)

curr == bot.curr_collective
old == bot.old_collective

Init ==
    /\ bot = Coffeebot
    /\ sent = <<>>
    /\ now = 0
    /\ call = [op |-> "Coffeebot", arg |-> None]
    /\ raised = NoError
    /\ returned = None
    /\ nobjects = 0
    /\ _PARSE_CACHE = {}

\* A Collective is constructed and becomes the bot's current collective.
\* handle_public_message is a stub, so this is the caller's doing.
Create(leader, max_size, timeout_in_mins) ==
    /\ curr = None
    /\ nobjects < MaxCollectives
    /\ bot' = [bot EXCEPT !.curr_collective =
                  Collective(leader, "S", "T", max_size, timeout_in_mins,
                             now, nobjects + 1)]
    /\ nobjects' = nobjects + 1
    /\ call' = [op |-> "Collective", arg |-> leader]
    /\ raised' = NoError
    /\ returned' = None
    /\ UNCHANGED <<sent, now, _PARSE_CACHE>>

Add(user, rnd) ==
    /\ curr # None
    /\ LET r == add(curr, user, rnd)
       IN /\ bot' = [bot EXCEPT !.curr_collective = r.self]
          /\ raised' = r.raise
    /\ call' = [op |-> "add", arg |-> user]
    /\ returned' = None
    /\ UNCHANGED <<sent, now, nobjects, _PARSE_CACHE>>

Remove(user) ==
    /\ curr # None
    /\ LET r == remove(curr, user)
       IN /\ bot' = [bot EXCEPT !.curr_collective = r.self]
          /\ raised' = r.raise
    /\ call' = [op |-> "remove", arg |-> user]
    /\ returned' = None
    /\ UNCHANGED <<sent, now, nobjects, _PARSE_CACHE>>

Close(rnd) ==
    /\ curr # None
    /\ LET r == close(curr, rnd)
       IN /\ bot' = [bot EXCEPT !.curr_collective = r.self]
          /\ raised' = r.raise
    /\ call' = [op |-> "close", arg |-> None]
    /\ returned' = None
    /\ UNCHANGED <<sent, now, nobjects, _PARSE_CACHE>>

Heartbeat(rnd) ==
    /\ LET r == handle_heartbeat(bot, sent, now, rnd)
       IN /\ bot' = r.self
          /\ sent' = r.sent
          /\ raised' = r.raise
    /\ call' = [op |-> "handle_heartbeat", arg |-> None]
    /\ returned' = None
    /\ UNCHANGED <<now, nobjects, _PARSE_CACHE>>

\* a minute passes
Tick ==
    /\ now < MaxTime
    /\ now' = now + 1
    /\ UNCHANGED <<bot, sent, call, raised, returned, nobjects, _PARSE_CACHE>>

\* the letters of chars in upper case
upper(chars) ==
    [i \in 1..Len(chars) |->
        IF \E k \in 1..Len(LowerCase) : LowerCase[k] = chars[i]
        THEN UpperCase[CHOOSE k \in 1..Len(LowerCase) : LowerCase[k] = chars[i]]
        ELSE chars[i]]

\* a phrase as written, in upper case, or with every other letter in upper
\* case, starting with the first or with the second character
Casings == {"lower", "upper", "mixed odd", "mixed even"}
Cased(phrase, casing) ==
    [i \in 1..Len(phrase) |->
        IF \/ casing = "upper"
           \/ casing = "mixed odd" /\ i % 2 = 1
           \/ casing = "mixed even" /\ i % 2 = 0
        THEN upper(phrase)[i]
        ELSE phrase[i]]

\* the (command, phrase) pairs of _COMMAND_REGS
Phrases ==
    UNION {{<<_COMMAND_REGS[i][1], _COMMAND_REGS[i][2][j]>> :
                j \in 1..Len(_COMMAND_REGS[i][2])} :
            i \in 1..Len(_COMMAND_REGS)}

Quotes == {backtick, "'", "\""}

\* what may stand before and after a phrase in a message: nothing, one
\* quote on either side or on both, or the three quotes in a row before it
Around ==
    {<<<<>>, <<>>>>, <<<<backtick, "'", "\"">>, <<>>>>} \cup
    UNION {{<<<<q>>, <<q>>>>, <<<<q>>, <<>>>>, <<<<>>, <<q>>>>} : q \in Quotes}

Messages ==
    {w[1] \o Cased(p[2], casing) \o w[2] :
        p \in Phrases, casing \in Casings, w \in Around}

Parse(message) ==
    /\ LET r == _parse(message, _PARSE_CACHE)
       IN /\ _PARSE_CACHE' = r.cache
          /\ returned' = r.return
    /\ call' = [op |-> "_parse", arg |-> Text(message)]
    /\ raised' = NoError
    /\ UNCHANGED <<bot, sent, now, nobjects>>

\* the events listen() subscribes to, with the fields the handlers could use
Events ==
    [type : {"heartbeat", "private", "message"},
     sender_email : {Str("alice"), Str("bob")},
     content : {Text(_COMMAND_REGS[1][2][1]), Text(_COMMAND_REGS[2][2][2])}]

DispatchEvent(event) ==
    /\ LET r == dispatch_event(bot, sent, event)
       IN /\ bot' = r.self
          /\ sent' = r.sent
          /\ raised' = r.raise
    /\ call' = [op |-> "dispatch_event", arg |-> event]
    /\ returned' = None
    /\ UNCHANGED <<now, nobjects, _PARSE_CACHE>>

\* is_stale() is called on the current collective
IsStale ==
    /\ curr # None
    /\ call' = [op |-> "is_stale", arg |-> None]
    /\ raised' = NoError
    /\ returned' = Bool(is_stale(curr, now))
    /\ UNCHANGED <<bot, sent, now, nobjects, _PARSE_CACHE>>

\* any number of minutes pass between two calls
Elapse(minutes) ==
    /\ now + minutes <= MaxElapsed
    /\ now' = now + minutes
    /\ UNCHANGED <<bot, sent, call, raised, returned, nobjects, _PARSE_CACHE>>

\* timeout_message() is called on the collective in one of the bot's slots
TimeoutMessage(slot) ==
    /\ bot[slot] # None
    /\ LET r == timeout_message(bot[slot])
       IN /\ raised' = r.raise
          /\ returned' = r.msg
    /\ call' = [op |-> "timeout_message", arg |-> None, self |-> slot]
    /\ UNCHANGED <<bot, sent, now, nobjects, _PARSE_CACHE>>

\* the directives a caller may hand to dispatch: a command of the table,
\* with a user or with nothing
Directives ==
    {Directive(command, args) :
        command \in {"init", "add", "remove", "close"},
        args \in Users \cup {None}}

Dispatch(directive, rnd) ==
    /\ curr # None
    /\ LET r == dispatch(curr, directive, rnd)
       IN /\ bot' = [bot EXCEPT !.curr_collective = r.self]
          /\ raised' = r.raise
    /\ call' = [op |-> "dispatch", arg |-> directive]
    /\ returned' = None
    /\ UNCHANGED <<sent, now, nobjects, _PARSE_CACHE>>

Next ==
    \/ \E leader \in Users, max_size \in 1..MaxSize,
          timeout_in_mins \in 1..MaxTimeout :
            Create(leader, max_size, timeout_in_mins)
    \/ \E user \in Users, rnd \in RandomSeeds : Add(user, rnd)
    \/ \E user \in Users : Remove(user)
    \/ \E rnd \in RandomSeeds : Close(rnd)
    \/ \E rnd \in RandomSeeds : Heartbeat(rnd)
    \/ Tick

Spec == Init /\ [][Next]_vars

\* The life of Collective objects on their own: no heartbeat, no clock.
NextCollective ==
    \/ \E leader \in Users, max_size \in 1..MaxSize,
          timeout_in_mins \in 1..MaxTimeout :
            Create(leader, max_size, timeout_in_mins)
    \/ \E user \in Users, rnd \in RandomSeeds : Add(user, rnd)
    \/ \E user \in Users : Remove(user)
    \/ \E rnd \in RandomSeeds : Close(rnd)

SpecCollective == Init /\ [][NextCollective]_vars

\* The parser on its own.
NextParser == \E message \in Messages : Parse(message)

SpecParser == Init /\ [][NextParser]_vars

\* Collectives, and events delivered to the bot.
NextEvents ==
    \/ NextCollective
    \/ \E event \in Events : DispatchEvent(event)

SpecEvents == Init /\ [][NextEvents]_vars

\* Staleness on its own: a collective of any timeout, open or closed, and a
\* clock that moves by any gap.
NextStale ==
    \/ \E leader \in Users, max_size \in 1..MaxSize,
          timeout_in_mins \in 1..MaxStaleTimeout :
            Create(leader, max_size, timeout_in_mins)
    \/ \E rnd \in RandomSeeds : Close(rnd)
    \/ IsStale
    \/ \E minutes \in 1..MaxElapsed : Elapse(minutes)

SpecStale == Init /\ [][NextStale]_vars

\* The bot with its heartbeat on collectives that fill and close, and
\* timeout_message called from outside it.
NextTimeout ==
    \/ \E leader \in Users, max_size \in 1..MaxSize,
          timeout_in_mins \in 1..MaxTimeout :
            Create(leader, max_size, timeout_in_mins)
    \/ \E user \in Users, rnd \in RandomSeeds : Add(user, rnd)
    \/ \E rnd \in RandomSeeds : Close(rnd)
    \/ \E rnd \in RandomSeeds : Heartbeat(rnd)
    \/ Tick
    \/ \E slot \in {"curr_collective", "old_collective"} : TimeoutMessage(slot)

SpecTimeout == Init /\ [][NextTimeout]_vars

\* Collectives, called directly and through dispatch.
NextDispatch ==
    \/ NextCollective
    \/ \E directive \in Directives, rnd \in RandomSeeds :
            Dispatch(directive, rnd)

SpecDispatch == Init /\ [][NextDispatch]_vars

\* The bot under a clock that keeps advancing and heartbeats that keep being
\* delivered by listen().
SpecFair ==
    /\ Init
    /\ [][Next]_vars
    /\ WF_vars(Tick)
    /\ SF_vars(\E rnd \in RandomSeeds : Heartbeat(rnd))

----------------------------------------------------------------------------
(* Properties *)

\* the step is a call of op: every call sets call, the clock's step does not
Called(op) == call'.op = op /\ now' = now

\* the same Collective object is current before and after the step
SameCollective == curr # None /\ curr' # None /\ curr'.oid = curr.oid

AlreadyClosed == CoffeeError("This collective has already been closed.")

\* what a call of add on an open collective must do
C1_AddStep ==
    (SameCollective /\ ~curr.closed /\ Called("add")) =>
        /\ raised' = NoError
        /\ len(curr') < curr.max_size => ~curr'.closed
        /\ len(curr') = curr.max_size =>
              /\ curr'.closed
              /\ curr'.maker # None
              /\ curr'.maker \in curr'.users

\* C1: an add on an open collective that leaves fewer than max_size users
\* leaves it open; the add that brings the users to max_size closes it and
\* sets maker to a non-null value that is one of the users.
C1_AddClosesAtCapWithMemberAsMaker == [][C1_AddStep]_vars

\* what a call of add or remove on a closed collective must do
C2_Step ==
    (SameCollective /\ curr.closed /\ (Called("add") \/ Called("remove"))) =>
        /\ raised'.exc = "CoffeeError"
        /\ curr'.users = curr.users

\* C2: once the collective is closed, every add and every remove fails with
\* CoffeeError and leaves users as it was.
C2_ClosedAllowsNoMembershipChange == [][C2_Step]_vars

\* what close() returns in a closed collective, and what a call of it does
C3_State ==
    (curr # None /\ curr.closed) =>
        \A rnd \in RandomSeeds :
            close(curr, rnd) = [self |-> curr, raise |-> AlreadyClosed]

C3_Step ==
    (SameCollective /\ curr.closed /\ Called("close")) =>
        /\ raised' = AlreadyClosed
        /\ curr' = curr

\* C3: close() on a closed collective raises the already-closed CoffeeError
\* and changes nothing of the collective: maker, users, leader and closed
\* stay as they were, however often it is repeated.
C3_CloseOnClosedFails == []C3_State /\ [][C3_Step]_vars

\* a close() has just failed on a closed collective that has a maker
C3_Witness ==
    /\ curr # None
    /\ curr.closed
    /\ Truthy(curr.maker)
    /\ call.op = "close"
    /\ raised = AlreadyClosed

\* where maker may be set, and what a step may do to it
C4_State == (curr # None /\ curr.maker # None) => curr.closed

C4_Step ==
    SameCollective =>
        /\ (curr.maker = None /\ curr'.maker # None) =>
              /\ ~curr.closed
              /\ curr'.closed
              /\ curr'.maker \in curr'.users
        /\ curr.maker # None => curr'.maker = curr.maker

\* C4: maker is set only by the step that closes the collective (so a set
\* maker implies closed), the value set is one of the users at that moment,
\* and once set it never changes.
C4_MakerSetOnceAtCloseFromUsers == []C4_State /\ [][C4_Step]_vars

\* C5: while the collective is open, it has at most max_size users.
C5_OpenWithinMaxSize ==
    (curr # None /\ ~curr.closed) => len(curr) <= curr.max_size

\* an add has left the collective open, one user short of max_size
C5_Witness ==
    /\ curr # None
    /\ ~curr.closed
    /\ call.op = "add"
    /\ raised = NoError
    /\ len(curr) + 1 = curr.max_size

\* C6: a collective that has max_size users or more is closed, from its
\* creation on and for every max_size.
C6_AtCapImpliesClosed ==
    (curr # None /\ len(curr) >= curr.max_size) => curr.closed

\* what remove(leader) returns, and what a call of it does
C7_State ==
    (curr # None /\ curr.leader \in curr.users) =>
        remove(curr, curr.leader) =
            [self |-> [curr EXCEPT !.leader = None,
                                   !.users = curr.users \ {curr.leader}],
             raise |-> NoError]

C7_Step ==
    (SameCollective /\ Called("remove") /\ call'.arg = curr.leader
        /\ curr.leader \in curr.users) =>
        /\ raised' = NoError
        /\ curr'.leader = None
        /\ curr'.users = curr.users \ {curr.leader}
        /\ curr'.closed = curr.closed
        /\ curr'.maker = curr.maker
        /\ curr' = [curr EXCEPT !.leader = None,
                                !.users = curr.users \ {curr.leader}]

\* C7: remove(leader), the leader being a member, unsets leader and removes
\* that one user; closed and maker stay as they were, all other members
\* stay, and the collective does not close when it becomes empty.
C7_RemoveLeaderUnsetsLeaderOnly == []C7_State /\ [][C7_Step]_vars

\* a remove has emptied an open collective of max_size 1, which never had a
\* user other than its leader (any add would have closed it)
C7_Witness ==
    /\ curr # None
    /\ curr.max_size = 1
    /\ ~curr.closed
    /\ curr.users = {}
    /\ curr.leader = None
    /\ call.op = "remove"
    /\ raised = NoError

\* what remove returns for a non-member, and what a call of it does
C8_State ==
    curr # None =>
        \A user \in Users \ curr.users :
            remove(curr, user) =
                [self |-> curr, raise |-> NotInCollective(user)]

C8_Step ==
    (SameCollective /\ Called("remove") /\ call'.arg \notin curr.users) =>
        /\ raised' = NotInCollective(call'.arg)
        /\ curr' = curr

\* C8: remove(user) of a user that is not a member raises the not-a-member
\* CoffeeError and changes nothing of the collective.
C8_RemoveNonMemberFails == []C8_State /\ [][C8_Step]_vars

\* a remove has just failed on a collective whose leader had left
C8_Witness ==
    /\ curr # None
    /\ curr.leader = None
    /\ call.op = "remove"
    /\ call.arg \notin curr.users
    /\ raised = NotInCollective(call.arg)

\* what close() returns in an open collective without users, and what a
\* call of it does
C9_State ==
    (curr # None /\ ~curr.closed /\ curr.users = {}) =>
        \A rnd \in RandomSeeds :
            close(curr, rnd) =
                [self |-> [curr EXCEPT !.closed = TRUE], raise |-> NoError]

C9_Step ==
    (SameCollective /\ ~curr.closed /\ curr.users = {}
        /\ Called("close")) =>
        /\ raised' = NoError
        /\ curr'.closed
        /\ curr'.maker = None
        /\ curr' = [curr EXCEPT !.closed = TRUE]

\* C9: close() on an open collective without users raises nothing, closes
\* it and leaves maker unset.
C9_CloseEmptySucceedsWithoutMaker == []C9_State /\ [][C9_Step]_vars

\* a close() has just closed a collective without users
C9_Witness ==
    /\ curr # None
    /\ curr.closed
    /\ curr.users = {}
    /\ curr.maker = None
    /\ call.op = "close"
    /\ raised = NoError

\* what a call of handle_heartbeat must do
C10_Step ==
    Called("handle_heartbeat") =>
        IF curr # None /\ is_stale(curr, now)
        THEN /\ curr' = None
             /\ old' # None
             /\ old'.oid = curr.oid
             /\ old'.closed
             /\ sent' = Append(sent, timeout_message(old').msg)
        ELSE /\ bot' = bot
             /\ sent' = sent

\* C10: a heartbeat that finds a stale current collective empties the
\* current slot, puts that collective, closed, into the old slot and sends
\* exactly its timeout message; any other heartbeat changes nothing and
\* sends nothing.
C10_HeartbeatArchivesStaleCollective == [][C10_Step]_vars

\* what a heartbeat must do with a stale current collective that is closed
C11_Step ==
    (Called("handle_heartbeat") /\ curr # None /\ Truthy(curr)
        /\ is_stale(curr, now) /\ curr.closed) =>
        /\ raised' = NoError
        /\ curr' = None
        /\ old' = curr
        /\ sent' = Append(sent, timeout_message(curr).msg)

\* C11: archiving a current collective that is already closed raises
\* nothing: the collective moves to the old slot as it is, closed and with
\* its maker, the current slot is emptied and its message is sent.
C11_ArchiveOfClosedCollectiveSucceeds == [][C11_Step]_vars

\* the step delivers a channel message from sender that parses as command
PublicMessage(sender, command) ==
    /\ Called("dispatch_event")
    /\ call'.arg.type = "message"
    /\ call'.arg.sender_email = sender
    /\ _parse(call'.arg.content.chars, _PARSE_CACHE).return = Str(command)

\* what the two messages of the scenario must do
C12_Step ==
    /\ (PublicMessage(Str("alice"), "init") /\ curr = None) =>
            /\ curr' # None
            /\ ~curr'.closed
            /\ curr'.leader = Str("alice")
            /\ curr'.users = {Str("alice")}
    /\ (/\ PublicMessage(Str("bob"), "add")
        /\ curr # None /\ ~curr.closed
        /\ curr.users = {Str("alice")} /\ curr.max_size = 2) =>
            /\ curr' = None
            /\ old' # None
            /\ old'.closed
            /\ old'.users = {Str("alice"), Str("bob")}
            /\ old'.maker \in {Str("alice"), Str("bob")}
            /\ sent' = Append(sent, timeout_message(old').msg)

\* C12: through the bot's public-message handler, "@coffeebot init" from
\* alice with no current collective creates an open collective led by alice
\* with users {alice}; "@coffeebot join" from bob then fills it (max_size 2),
\* so it closes with a maker among the two, moves to the old slot, and its
\* message is sent.
C12_PublicMessagesRunTheCollective == [][C12_Step]_vars

\* the minutes since the current collective was created
Elapsed == now - curr.time_created

\* is_stale as a function of the elapsed time, for the current collective
C13_State ==
    curr # None =>
        /\ Elapsed = 0 => ~is_stale(curr, now)
        /\ Elapsed >= curr.timeout_in_mins => is_stale(curr, now)
        /\ \A e1, e2 \in 0..MaxElapsed :
              (e1 <= e2 /\ is_stale(curr, curr.time_created + e1)) =>
                  is_stale(curr, curr.time_created + e2)

\* what a call of is_stale returns and leaves alone, and what the passing of
\* time does to staleness
C13_Step ==
    /\ Called("is_stale") =>
          /\ raised' = NoError
          /\ bot' = bot
          /\ sent' = sent
          /\ Elapsed = 0 => returned' = Bool(FALSE)
          /\ Elapsed >= curr.timeout_in_mins => returned' = Bool(TRUE)
    /\ (SameCollective /\ is_stale(curr, now)) => is_stale(curr', now')

\* C13: is_stale is false when no time has elapsed since creation, true
\* whenever the elapsed time is at least the timeout, and once true it stays
\* true however far the clock moves; a call of it changes no field of the
\* collective, whether open or closed.
C13_IsStaleFromTimeoutOnAndPure == []C13_State /\ [][C13_Step]_vars

\* is_stale answered true on a closed collective exactly at a timeout above 1
C13_Witness ==
    /\ curr # None
    /\ curr.closed
    /\ call.op = "is_stale"
    /\ returned = Bool(TRUE)
    /\ curr.timeout_in_mins > 1
    /\ Elapsed = curr.timeout_in_mins

\* C14: for every (command, phrase) pair of the command table and every
\* casing of the phrase, parsing the phrase gives exactly that command (so
\* "@coffeebot init" gives init, never add through "@coffeebot in"), and
\* parsing the phrase wrapped in backticks, single quotes or double quotes
\* gives no match.
C14_ParserRoundTrip ==
    call.op = "_parse" =>
        \A p \in Phrases, casing \in Casings :
            LET cased == Cased(p[2], casing)
            IN /\ call.arg = Text(cased) => returned = Str(p[1])
               /\ \A q \in Quotes :
                     call.arg = Text(<<q>> \o cased \o <<q>>) =>
                         returned = None

\* "@CoFfEeBoT InIt" was parsed, and gave init
C14_Witness ==
    /\ call.op = "_parse"
    /\ call.arg = Text(Cased(_COMMAND_REGS[1][2][1], "mixed even"))
    /\ returned = Str("init")

\* C19: a message in which a trigger phrase has a backtick, a single quote or
\* a double quote directly before it or directly after it is not parsed as
\* that phrase's command; so neither is a message that starts with the
\* phrase and goes on with one of those characters.
C19_QuoteBesidePhraseNeverMatches ==
    call.op = "_parse" =>
        \A p \in Phrases, casing \in Casings, w \in Around :
            (/\ w # <<<<>>, <<>>>>
             /\ call.arg = Text(w[1] \o Cased(p[2], casing) \o w[2])) =>
                returned # Str(p[1])

\* what a call of timeout_message, and a heartbeat, must do
C15_Step ==
    /\ Called("timeout_message") =>
          LET self == bot[call'.self]
          IN /\ bot' = bot
             /\ sent' = sent
             /\ ~self.closed =>
                   /\ raised'.exc = "AssertionError"
                   /\ returned' = None
             /\ self.closed =>
                   /\ raised' = NoError
                   /\ returned'.content.maker = self.maker
    /\ Called("handle_heartbeat") =>
          /\ raised'.exc # "AssertionError"
          /\ sent' # sent =>
                /\ old' # None
                /\ old'.closed
                /\ sent' = Append(sent, timeout_message(old').msg)

\* the payload of a call of timeout_message belongs to a closed collective
C15_State ==
    (call.op = "timeout_message" /\ returned # None) =>
        /\ raised = NoError
        /\ bot[call.self].closed

\* C15: timeout_message on an open collective fails with an AssertionError,
\* not a CoffeeError, and returns nothing; only a closed collective gives a
\* payload; and a heartbeat never fails with that assertion: whatever it
\* sends is the message of the closed collective it archived.
C15_TimeoutMessageOnlyFromClosed == []C15_State /\ [][C15_Step]_vars

\* timeout_message was called on an open collective and failed its assertion
C15_Witness ==
    /\ call.op = "timeout_message"
    /\ ~bot[call.self].closed
    /\ raised.exc = "AssertionError"
    /\ returned = None

\* C16: over every sequence of add, remove and close calls, failing ones
\* included, elect_maker is never entered with the maker already set (an
\* open collective has no maker, and only an open collective elects), so
\* "Maker has already been elected!" is never raised: a call raises nothing,
\* or one of the two closed-collective errors, or the not-a-member error.
C16_MakerAlreadyElectedUnreachable ==
    /\ raised \in {NoError, CoffeeError("This collective is closed."),
                   AlreadyClosed} \cup {NotInCollective(u) : u \in Users}
    /\ (curr # None /\ ~curr.closed) => curr.maker = None

\* close was called on a closed collective that has its maker, and was
\* turned away before electing
C16_Witness ==
    /\ curr # None
    /\ curr.closed
    /\ Truthy(curr.maker)
    /\ call.op = "close"
    /\ raised = AlreadyClosed

\* the operation a well-formed directive stands for, called directly
Routed(self, directive, rnd) ==
    CASE directive.command = "add" -> add(self, directive.args, rnd)
      [] directive.command = "remove" -> remove(self, directive.args)
      [] directive.command = "close" -> close(self, rnd)

\* add and remove directives carry a user, close directives carry nothing
WellFormed(directive) ==
    \/ directive.command \in {"add", "remove"} /\ directive.args \in Users
    \/ directive.command = "close" /\ directive.args = None

\* dispatch and the routed operation agree on every collective
C17_State ==
    curr # None =>
        \A directive \in Directives, rnd \in RandomSeeds :
            WellFormed(directive) =>
                dispatch(curr, directive, rnd) = Routed(curr, directive, rnd)

\* a call of dispatch does what the routed operation does, for some outcome
\* of the election
C17_Step ==
    (Called("dispatch") /\ WellFormed(call'.arg)) =>
        \E rnd \in RandomSeeds :
            LET r == Routed(curr, call'.arg, rnd)
            IN /\ bot' = [bot EXCEPT !.curr_collective = r.self]
               /\ raised' = r.raise
               /\ sent' = sent

\* C17: dispatch of an add or remove directive carrying a user, or of a
\* close directive carrying nothing, leaves the collective exactly as
\* add(user), remove(user) or close() would and raises exactly the error that
\* call would raise.
C17_DispatchIsTheRoutedCall == []C17_State /\ [][C17_Step]_vars

\* an add directive through dispatch filled the collective and closed it
C17_Witness ==
    /\ curr # None
    /\ call.op = "dispatch"
    /\ call.arg = Directive("add", Str("bob"))
    /\ raised = NoError
    /\ curr.closed
    /\ Str("bob") \in curr.users

\* C18: with time passing and heartbeats delivered, every collective in the
\* current slot is retired in the end without a close directive, whatever
\* was done to it meanwhile: once it is there and stale, a state follows
\* where the current slot is empty and that collective is closed in the old
\* slot.
C18_StaleCollectiveIsRetired ==
    \A oid \in 1..MaxCollectives :
        (curr # None /\ curr.oid = oid /\ is_stale(curr, now))
            ~> (curr = None /\ old # None /\ old.oid = oid /\ old.closed)

\* the leader is unset or a member
C20_State ==
    curr # None => (curr.leader = None \/ curr.leader \in curr.users)

\* an unset leader stays unset
C20_Step ==
    (SameCollective /\ curr.leader = None) => curr'.leader = None

\* C20: after any sequence of add, remove and close calls, failing ones
\* included, the leader is either unset or one of the users; and once it is
\* unset no call sets it again, not even an add of the former leader.
C20_LeaderUnsetOrMember == []C20_State /\ [][C20_Step]_vars

\* a user was added to a collective whose leader had left, and it still has
\* no leader
C20_Witness ==
    /\ curr # None
    /\ curr.leader = None
    /\ call.op = "add"
    /\ raised = NoError
    /\ call.arg \in curr.users

====
